---- MODULE Spec2Model ----
(***************************************************************************)
(* Model of bevy_transitions (src/src/lib.rs): the fade overlay that       *)
(* darkens the screen, commits a pending state change at full opacity and  *)
(* clears again.                                                           *)
(*                                                                         *)
(* Opacity (the alpha of BackgroundColor) and Time::delta_secs are f32 in  *)
(* the program.  An f32 in [0, 8) that is a multiple of 2^-27 is held here *)
(* as the integer n with value n * 2^-27, and sums are rounded to 24       *)
(* significant bits (round to nearest, ties to even) as the hardware does. *)
(* TransitionSpeed is held as a whole number of alpha units per second.    *)
(***************************************************************************)
EXTENDS Integers, Sequences, FiniteSets, TLC

\* ---------------------------------------------------------------- bounds
MaxSurfaces == 2
MaxOverlays == 2
MaxMessages == 2
MaxScenTicks == 11
MaxFrames == 2

\* ------------------------------------------------------------- constants
DefaultSpeed == 2

One == 2^27
\* nearest f32 to 0.1, in units of 2^-27
DtTenth == (One + 5) \div 10
\* the values Time::delta_secs takes in the model: 0, 0.1 s and 1 s
Dts == {0, DtTenth, One}

States == {"A", "B"}
None == "None"
Unchanged == "Unchanged"
Null == [owner |-> 0]

Surfaces == 1..MaxSurfaces
OverlayIds == 1..MaxOverlays

\* ------------------------------------------------------------ f32 helpers
Abs(x) == IF x < 0 THEN -x ELSE x

\* a value that is used more than once is bound once, as by a let of the
\* program: CHOOSE r \in {F(x) : x \in {v}} : TRUE is F(v)
RECURSIVE Ulp(_)
Ulp(n) == IF n < 2^24 THEN 1 ELSE 2 * (CHOOSE r \in {Ulp(m) : m \in {n \div 2}} : TRUE)

\* mutant: sums are exact, not rounded to 24 bits
RoundExact(n) == n

\* n rounded to a multiple of q, to the nearest and on a tie to the even one
RoundTo(n, q) ==
    LET lo == (n \div q) * q
        r  == n - lo
    IN  IF 2 * r < q THEN lo
        ELSE IF 2 * r > q THEN lo + q
        ELSE IF (lo \div q) % 2 = 0 THEN lo ELSE lo + q

\* n rounded to 24 significant bits
RoundValue(n) == CHOOSE r \in {RoundTo(n, q) : q \in {Ulp(n)}} : TRUE

RoundF32(n) == CHOOSE r \in {RoundValue(m) : m \in {n}} : TRUE

\* the sign is kept apart from the magnitude, which is what is rounded
RoundSigned(n) == IF n < 0 THEN -RoundF32(-n) ELSE RoundF32(n)

AddF32(a, b) == CHOOSE r \in {RoundSigned(n) : n \in {a + b}} : TRUE

MulF32(s, d) == CHOOSE r \in {RoundSigned(n) : n \in {s * d}} : TRUE

\* mutant: no lower limit
ClampAbove(x, lo, hi) == IF x > hi THEN hi ELSE x

Clamp(x, lo, hi) == IF x < lo THEN lo ELSE IF x > hi THEN hi ELSE x

\* ----------------------------------------------------------------- state
VARIABLES
    entities,       \* surface entity -> "absent" | "alive"
    overlays,       \* overlay entity -> Null or [owner, alpha]
    speed,          \* TransitionSpeed.0
    pending_state,  \* PendingState<S>.0
    messages,       \* TransitionMessage<S> written and not yet read by the handler
    next_state,     \* NextState<S>
    requested,      \* history: the state passed to the latest Transition::to, None
                    \* once apply_fade has sent it
    lastOp,         \* history: the system or observer that ran last
    scen,           \* history: the ticks of 0.1 s counted since the latest request
                    \* made with one overlay on screen
    reader,         \* the messages not yet read by the MessageReader of
                    \* is_transition_pending
    emitted,        \* history: a message has been written since
                    \* is_transition_pending last ran
    other           \* a second plugin instance, for a state type S2: its
                    \* PendingState<S2>, its messages and its NextState<S2>

pvars == <<entities, overlays, speed, pending_state, messages, next_state>>
\* what runs beside the one plugin instance
beside == <<reader, emitted, other>>
vars == <<entities, overlays, speed, pending_state, messages, next_state,
          requested, lastOp, scen, beside>>

Live == {o \in OverlayIds : overlays[o] # Null}

\* Overlays(e): the relationship target kept by the entity store from OverlayOf
OverlaysOf(ovs, e) == {o \in OverlayIds : ovs[o] # Null /\ ovs[o].owner = e}

\* ------------------------------------------------------------ Transition
\* the SystemParam: the writer, the speed resource and the pending resource
TransitionParam == [writer |-> messages, speed |-> speed, pending_state |-> pending_state]

\* mutant: the speed resource is not written
set_speed_dropped(tr, s) == tr

set_speed(tr, s) == [tr EXCEPT !.speed = s]

\* mutant: a request does not replace a pending one
to_keeps_first(tr, state) ==
    set_speed([tr EXCEPT !.pending_state = IF @ = None THEN state ELSE @], Abs(tr.speed))

\* mutant: a request leaves the direction of the fade alone
to_keeps_direction(tr, state) == [tr EXCEPT !.pending_state = state]

\* mutant: a request turns the speed negative
to_negates(tr, state) ==
    set_speed([tr EXCEPT !.pending_state = state], -Abs(tr.speed))

to(tr, state) == set_speed([tr EXCEPT !.pending_state = state], Abs(tr.speed))

\* mutant: the pending state is read and left in place
take_pending_peeks(tr) == tr

take_pending(tr) == [tr EXCEPT !.pending_state = None]

\* ------------------------------------------------------------ apply_fade
\* mutant: the commit needs the opacity to have risen to 1 in this iteration
FadeBodyOnRise(st, o, d) ==
    LET alpha == Clamp(AddF32(st.ovs[o].alpha, MulF32(st.tr.speed, d)), 0, One)
        ovs2  == [st.ovs EXCEPT ![o].alpha = alpha]
    IN  IF alpha >= One /\ st.ovs[o].alpha < One /\ st.tr.pending_state # None
        THEN LET pending == st.tr.pending_state
                 t1 == take_pending(st.tr)
                 t2 == [t1 EXCEPT !.writer = Append(t1.writer, pending)]
                 t3 == set_speed(t2, -Abs(t2.speed))
             IN  [ovs |-> ovs2, tr |-> t3]
        ELSE [ovs |-> ovs2, tr |-> st.tr]

\* mutant: the commit needs an opacity above 1
FadeBodyStrict(st, o, d) ==
    LET alpha == Clamp(AddF32(st.ovs[o].alpha, MulF32(st.tr.speed, d)), 0, One)
        ovs2  == [st.ovs EXCEPT ![o].alpha = alpha]
    IN  IF alpha > One /\ st.tr.pending_state # None
        THEN LET pending == st.tr.pending_state
                 t1 == take_pending(st.tr)
                 t2 == [t1 EXCEPT !.writer = Append(t1.writer, pending)]
                 t3 == set_speed(t2, -Abs(t2.speed))
             IN  [ovs |-> ovs2, tr |-> t3]
        ELSE [ovs |-> ovs2, tr |-> st.tr]

\* mutant: the speed is turned negative at opacity 1 with or without a
\* pending state
FadeBodyFlipAlways(st, o, d) ==
    LET alpha == Clamp(AddF32(st.ovs[o].alpha, MulF32(st.tr.speed, d)), 0, One)
        ovs2  == [st.ovs EXCEPT ![o].alpha = alpha]
        t0    == IF alpha >= One THEN set_speed(st.tr, -Abs(st.tr.speed)) ELSE st.tr
    IN  IF alpha >= One /\ st.tr.pending_state # None
        THEN LET pending == t0.pending_state
                 t1 == take_pending(t0)
                 t2 == [t1 EXCEPT !.writer = Append(t1.writer, pending)]
             IN  [ovs |-> ovs2, tr |-> t2]
        ELSE [ovs |-> ovs2, tr |-> t0]

\* one iteration of the loop body for overlay o
FadeBody(st, o, d) ==
    LET alpha == Clamp(AddF32(st.ovs[o].alpha, MulF32(st.tr.speed, d)), 0, One)
        ovs2  == [st.ovs EXCEPT ![o].alpha = alpha]
    IN  IF alpha >= One /\ st.tr.pending_state # None
        THEN LET pending == st.tr.pending_state
                 t1 == take_pending(st.tr)
                 t2 == [t1 EXCEPT !.writer = Append(t1.writer, pending)]
                 t3 == set_speed(t2, -Abs(t2.speed))
             IN  [ovs |-> ovs2, tr |-> t3]
        ELSE [ovs |-> ovs2, tr |-> st.tr]

\* mutant: a pass over no overlay sends the pending state
RECURSIVE FadeLoopCommitsEmpty(_, _, _)
FadeLoopCommitsEmpty(st, order, d) ==
    IF order = <<>>
    THEN IF st.ovs = [o \in OverlayIds |-> Null] /\ st.tr.pending_state # None
         THEN [st EXCEPT !.tr = set_speed(
                  [take_pending(st.tr) EXCEPT !.writer = Append(@, st.tr.pending_state)],
                  -Abs(st.tr.speed))]
         ELSE st
    ELSE CHOOSE r \in {FadeLoopCommitsEmpty(next, Tail(order), d) :
                         next \in {FadeBody(st, Head(order), d)}} : TRUE

RECURSIVE FadeLoop(_, _, _)
FadeLoop(st, order, d) ==
    IF order = <<>> THEN st
    ELSE CHOOSE r \in {FadeLoop(next, Tail(order), d) :
                         next \in {FadeBody(st, Head(order), d)}} : TRUE

\* the orders in which the query may yield the overlays
Orders(S) == {f \in [1..Cardinality(S) -> S] : \A i, j \in DOMAIN f : i # j => f[i] # f[j]}

FadeResult(order, d) == FadeLoop([ovs |-> overlays, tr |-> TransitionParam], order, d)

apply_fade(order, d) ==
    \E res \in {FadeResult(order, d)} :
        /\ overlays' = res.ovs
        /\ speed' = res.tr.speed
        /\ pending_state' = res.tr.pending_state
        /\ messages' = res.tr.writer
        /\ UNCHANGED <<entities, next_state>>

\* -------------------------------------------------- handle_transition_events
\* mutant: only the first message is applied
ReadFirst(events, ns) == IF events = <<>> THEN ns ELSE Head(events)

RECURSIVE ReadAll(_, _)
ReadAll(events, ns) ==
    IF events = <<>> THEN ns ELSE ReadAll(Tail(events), Head(events))

handle_transition_events ==
    /\ next_state' = ReadAll(messages, next_state)
    /\ messages' = <<>>
    /\ UNCHANGED <<entities, overlays, speed, pending_state>>

\* ------------------------------------------------------ is_transition_pending
\* events: the number of messages its MessageReader has not read
\* mutant: the reader is not cleared
is_transition_pending_keeps(events) == [had_events |-> events # 0, events |-> events]

\* had_events = !events.is_empty(); events.clear(); had_events
is_transition_pending(events) == [had_events |-> events # 0, events |-> 0]

\* ---------------------------------------------------------- on_camera_change
FreeId == CHOOSE o \in OverlayIds : overlays[o] = Null /\ \A p \in OverlayIds : overlays[p] = Null => o <= p

\* mutant: a new overlay is transparent
NewOverlayClear(e) == [owner |-> e, alpha |-> 0]

NewOverlay(e) == [owner |-> e, alpha |-> One]

\* mutant: a new overlay is transparent
\* mutant: a surface that has an overlay gets no second one
on_camera_change_once(e) ==
    /\ overlays' = IF OverlaysOf(overlays, e) # {} THEN overlays
                   ELSE [overlays EXCEPT ![FreeId] = NewOverlay(e)]

on_camera_change(e) ==
    /\ overlays' = [overlays EXCEPT ![FreeId] = NewOverlay(e)]

\* --------------------------------------------------------- on_camera_despawn
\* mutant: every overlay is despawned, whoever owns it
on_camera_despawn_all(e) ==
    /\ overlays' = [o \in OverlayIds |-> Null]

\* mutant: a failed lookup of the entity's Overlays despawns every overlay
on_camera_despawn_unchecked(e) ==
    /\ overlays' = [o \in OverlayIds |->
                      IF OverlaysOf(overlays, e) = {} \/ o \in OverlaysOf(overlays, e)
                      THEN Null ELSE overlays[o]]

\* `let Ok(overlays) = q_overlays.get(..) else return`: an entity without
\* Overlays leaves every overlay alone
on_camera_despawn(e) ==
    /\ overlays' = IF OverlaysOf(overlays, e) = {} THEN overlays
                   ELSE [o \in OverlayIds |->
                           IF o \in OverlaysOf(overlays, e) THEN Null ELSE overlays[o]]

\* --------------------------------------------------------------- actions
\* n: ticks since the request (-1: none yet), a0: opacity at the request,
\* fresh: no pass has run on the overlay since it was created, state: the
\* state requested, commit: the tick that sent a message (0: none), carried:
\* the state that message carried
NoScen == [n |-> -1, a0 |-> -1, fresh |-> TRUE, state |-> None,
           commit |-> 0, carried |-> None]

NoOther == [pending_state |-> None, messages |-> <<>>, next_state |-> Unchanged]

Init ==
    /\ entities = [e \in Surfaces |-> "absent"]
    /\ overlays = [o \in OverlayIds |-> Null]
    /\ speed = DefaultSpeed
    /\ pending_state = None
    /\ messages = <<>>
    /\ next_state = Unchanged
    /\ requested = None
    /\ lastOp = [op |-> "init"]
    /\ scen = NoScen
    /\ reader = 0
    /\ emitted = FALSE
    /\ other = NoOther

\* a caller's system runs Transition::to(state)
Request(state) ==
    /\ pending_state # None \/ Len(messages) < MaxMessages
    /\ LET tr == to(TransitionParam, state)
       IN  /\ speed' = tr.speed
           /\ pending_state' = tr.pending_state
           /\ messages' = tr.writer
    /\ UNCHANGED <<entities, overlays, next_state>>

\* the Update schedule runs apply_fade; the clock supplies d
Fade(order, d) == apply_fade(order, d)

\* the FixedUpdate schedule runs handle_transition_events
Handle == handle_transition_events

\* an entity is spawned without the component C: no observer runs
Spawn(e) ==
    /\ entities[e] = "absent"
    /\ entities' = [entities EXCEPT ![e] = "alive"]
    /\ UNCHANGED <<overlays, speed, pending_state, messages, next_state>>

\* C is added to a live entity that does not carry it (never had it, or had
\* it removed, which no observer of the plugin sees): On<Add, C> runs
\* on_camera_change
Insert(e) ==
    /\ entities[e] = "alive"
    /\ Cardinality(Live) < MaxOverlays
    /\ on_camera_change(e)
    /\ UNCHANGED <<entities, speed, pending_state, messages, next_state>>

\* the entity is despawned: its Overlays component, if any, is removed and
\* on_camera_despawn handles the removal
Despawn(e) ==
    /\ entities[e] # "absent"
    /\ entities' = [entities EXCEPT ![e] = "absent"]
    /\ on_camera_despawn(e)
    /\ UNCHANGED <<speed, pending_state, messages, next_state>>

\* ------------------------------------------------- the program, any inputs
RequestTransition ==
    \E state \in States :
        /\ Request(state)
        /\ requested' = state
        /\ lastOp' = [op |-> "to", was |-> pending_state, from |-> speed]
        /\ UNCHANGED <<scen, beside>>

ApplyFade ==
    \E d \in Dts : \E order \in Orders(Live) :
        /\ Fade(order, d)
        /\ requested' = IF Len(messages') > Len(messages) THEN None ELSE requested
        /\ lastOp' = [op |-> "apply_fade", dt |-> d,
                      sent |-> Len(messages') - Len(messages),
                      dark_request |-> /\ lastOp.op = "to"
                                       /\ lastOp.was = None
                                       /\ \E o \in Live : overlays[o].alpha = One]
        /\ UNCHANGED <<scen, beside>>

HandleTransitionEvents ==
    /\ Handle
    /\ lastOp' = [op |-> "handle_transition_events", read |-> messages]
    /\ UNCHANGED <<requested, scen, beside>>

SpawnEntity ==
    \E e \in Surfaces :
        /\ Spawn(e)
        /\ lastOp' = [op |-> "spawn", entity |-> e]
        /\ UNCHANGED <<requested, scen, beside>>

InsertCamera ==
    \E e \in Surfaces :
        /\ Insert(e)
        /\ lastOp' = [op |-> "insert", entity |-> e]
        /\ UNCHANGED <<requested, scen, beside>>

DespawnEntity ==
    \E e \in Surfaces :
        /\ Despawn(e)
        /\ lastOp' = [op |-> "despawn", entity |-> e,
                      had |-> Cardinality(OverlaysOf(overlays, e))]
        /\ UNCHANGED <<requested, scen, beside>>

Next ==
    \/ RequestTransition
    \/ ApplyFade
    \/ HandleTransitionEvents
    \/ SpawnEntity
    \/ InsertCamera
    \/ DespawnEntity

Spec == Init /\ [][Next]_vars

\* ------------------------------- the program when nothing is ever requested
NextIdle ==
    \/ ApplyFade
    \/ HandleTransitionEvents
    \/ SpawnEntity
    \/ InsertCamera
    \/ DespawnEntity

SpecIdle == Init /\ [][NextIdle]_vars

\* ------------------ the program with ticks that keep coming, each with dt > 0
\* surfaces appear and stay; the Update schedule runs apply_fade in every frame
LiveSpawn ==
    \E e \in Surfaces :
        /\ Spawn(e)
        /\ UNCHANGED <<requested, lastOp, scen, beside>>

LiveAppear ==
    \E e \in Surfaces :
        /\ Insert(e)
        /\ UNCHANGED <<requested, lastOp, scen, beside>>

LiveRequest ==
    \E state \in States :
        /\ Request(state)
        /\ UNCHANGED <<requested, lastOp, scen, beside>>

LiveTick ==
    \E d \in Dts \ {0} : \E order \in Orders(Live) :
        /\ Fade(order, d)
        /\ UNCHANGED <<requested, lastOp, scen, beside>>

LiveHandle ==
    /\ Handle
    /\ UNCHANGED <<requested, lastOp, scen, beside>>

NextLive ==
    \/ LiveSpawn
    \/ LiveAppear
    \/ LiveRequest
    \/ LiveTick
    \/ LiveHandle

SpecLive == Init /\ [][NextLive]_vars /\ WF_vars(LiveTick)

\* ---------------- the program with is_transition_pending run by a system
QueryRequest ==
    \E state \in States :
        /\ pending_state # None \/ reader < MaxMessages
        /\ Request(state)
        /\ lastOp' = [op |-> "to"]
        /\ UNCHANGED <<requested, scen, beside>>

\* every message apply_fade writes is one more for the reader to read
QueryFade ==
    \E d \in Dts : \E order \in Orders(Live) :
        /\ Fade(order, d)
        /\ reader' = reader + (Len(messages') - Len(messages))
        /\ emitted' = (emitted \/ Len(messages') > Len(messages))
        /\ lastOp' = [op |-> "apply_fade"]
        /\ UNCHANGED <<requested, scen, other>>

QueryHandle ==
    /\ Handle
    /\ lastOp' = [op |-> "handle_transition_events", read |-> messages,
                  observed |-> reader = 0]
    /\ UNCHANGED <<requested, scen, beside>>

QuerySpawn ==
    \E e \in Surfaces :
        /\ Spawn(e)
        /\ lastOp' = [op |-> "spawn"]
        /\ UNCHANGED <<requested, scen, beside>>

QueryInsert ==
    \E e \in Surfaces :
        /\ Insert(e)
        /\ lastOp' = [op |-> "insert"]
        /\ UNCHANGED <<requested, scen, beside>>

QueryDespawn ==
    \E e \in Surfaces :
        /\ Despawn(e)
        /\ lastOp' = [op |-> "despawn"]
        /\ UNCHANGED <<requested, scen, beside>>

IsTransitionPending ==
    LET res == is_transition_pending(reader)
    IN  /\ reader' = res.events
        /\ emitted' = FALSE
        /\ lastOp' = [op |-> "is_transition_pending", had_events |-> res.had_events,
                      again |-> lastOp.op = "is_transition_pending"]
        /\ UNCHANGED <<pvars, requested, scen, other>>

NextQuery ==
    \/ QueryRequest
    \/ QueryFade
    \/ QueryHandle
    \/ QuerySpawn
    \/ QueryInsert
    \/ QueryDespawn
    \/ IsTransitionPending

SpecQuery == Init /\ [][NextQuery]_vars

\* ------------------------------ the program with two plugin instances
\* TransitionsPlugin<S1, C1> and TransitionsPlugin<S2, C2>: PendingState<S> and
\* the messages are per state type, TransitionSpeed and the FadeOverlay query
\* are not, so both instances get the one speed resource and every overlay
\* history: the frames run so far
FrameNo == IF "frame" \in DOMAIN lastOp THEN lastOp.frame ELSE 0

OtherParam == [writer |-> other.messages, speed |-> speed,
               pending_state |-> other.pending_state]

TwoSpawn ==
    \E e \in Surfaces :
        /\ Spawn(e)
        /\ lastOp' = [op |-> "spawn", frame |-> FrameNo]
        /\ UNCHANGED <<requested, scen, beside>>

TwoAppear ==
    \E e \in Surfaces :
        /\ Insert(e)
        /\ lastOp' = [op |-> "insert", frame |-> FrameNo]
        /\ UNCHANGED <<requested, scen, beside>>

TwoRequestFirst ==
    \E state \in States :
        /\ Request(state)
        /\ lastOp' = [op |-> "to", instance |-> "S1", frame |-> FrameNo]
        /\ UNCHANGED <<requested, scen, beside>>

TwoRequestSecond ==
    \E state \in States :
        /\ other.pending_state # None \/ Len(other.messages) < MaxMessages
        /\ LET tr == to(OtherParam, state)
           IN  /\ speed' = tr.speed
               /\ other' = [other EXCEPT !.pending_state = tr.pending_state,
                                         !.messages = tr.writer]
        /\ lastOp' = [op |-> "to", instance |-> "S2", frame |-> FrameNo]
        /\ UNCHANGED <<entities, overlays, pending_state, messages, next_state,
                       requested, scen, reader, emitted>>

\* one frame: apply_fade of both instances runs, in either order, with the
\* same dt; the second to run starts from what the first has left
TwoFrame ==
    /\ FrameNo < MaxFrames
    /\ \E d \in Dts : \E order1, order2 \in Orders(Live) : \E firstIsS1 \in BOOLEAN :
        \E r1 \in {FadeLoop([ovs |-> overlays,
                              tr |-> IF firstIsS1 THEN TransitionParam ELSE OtherParam],
                             order1, d)} :
        \E r2 \in {FadeLoop([ovs |-> r1.ovs,
                              tr |-> [(IF firstIsS1 THEN OtherParam ELSE TransitionParam)
                                         EXCEPT !.speed = r1.tr.speed]],
                             order2, d)} :
        \E mine \in {IF firstIsS1 THEN r1.tr ELSE r2.tr} :
        \E its \in {IF firstIsS1 THEN r2.tr ELSE r1.tr} :
            /\ overlays' = r2.ovs
            /\ speed' = r2.tr.speed
            /\ pending_state' = mine.pending_state
            /\ messages' = mine.writer
            /\ other' = [other EXCEPT !.pending_state = its.pending_state,
                                      !.messages = its.writer]
            /\ lastOp' = [op |-> "frame", frame |-> FrameNo + 1,
                          sent |-> (IF Len(mine.writer) > Len(messages) THEN {"S1"} ELSE {})
                                   \cup (IF Len(its.writer) > Len(other.messages)
                                          THEN {"S2"} ELSE {})]
            /\ UNCHANGED <<entities, next_state, requested, scen, reader, emitted>>

TwoHandleFirst ==
    /\ Handle
    /\ lastOp' = [op |-> "handle_transition_events", instance |-> "S1", frame |-> FrameNo]
    /\ UNCHANGED <<requested, scen, beside>>

TwoHandleSecond ==
    /\ other' = [other EXCEPT !.next_state = ReadAll(other.messages, @),
                              !.messages = <<>>]
    /\ lastOp' = [op |-> "handle_transition_events", instance |-> "S2", frame |-> FrameNo]
    /\ UNCHANGED <<pvars, requested, scen, reader, emitted>>

NextTwo ==
    \/ TwoSpawn
    \/ TwoAppear
    \/ TwoRequestFirst
    \/ TwoRequestSecond
    \/ TwoFrame
    \/ TwoHandleFirst
    \/ TwoHandleSecond

SpecTwo == Init /\ [][NextTwo]_vars

\* ------------------------- the scenario: one surface, every tick 0.1 s long
ScenSurface == CHOOSE e \in Surfaces : \A f \in Surfaces : e <= f

ScenAlpha == IF Live = {} THEN -1 ELSE overlays[CHOOSE o \in Live : TRUE].alpha

ScenSpawn ==
    /\ Spawn(ScenSurface)
    /\ UNCHANGED <<requested, lastOp, scen, beside>>

ScenAppear ==
    /\ Live = {}
    /\ Insert(ScenSurface)
    /\ UNCHANGED <<requested, lastOp, scen, beside>>

ScenRequest ==
    \E state \in States :
        /\ Live # {}
        /\ Request(state)
        /\ scen' = [n |-> 0, a0 |-> ScenAlpha, fresh |-> scen.n < 0 /\ scen.fresh,
                    state |-> state, commit |-> 0, carried |-> None]
        /\ UNCHANGED <<requested, lastOp, beside>>

ScenTick ==
    \E order \in Orders(Live) :
        /\ Fade(order, DtTenth)
        /\ scen' = IF scen.n < 0
                   THEN [scen EXCEPT !.fresh = @ /\ Live = {}]
                   ELSE [scen EXCEPT
                            !.n = IF @ < MaxScenTicks THEN @ + 1 ELSE @,
                            !.commit = IF Len(messages') > Len(messages) /\ @ = 0
                                       THEN scen.n + 1 ELSE @,
                            !.carried = IF Len(messages') > Len(messages) /\ scen.commit = 0
                                        THEN messages'[Len(messages')] ELSE @]
        /\ UNCHANGED <<requested, lastOp, beside>>

ScenHandle ==
    /\ Handle
    /\ UNCHANGED <<requested, lastOp, scen, beside>>

ScenNext ==
    \/ ScenSpawn
    \/ ScenAppear
    \/ ScenRequest
    \/ ScenTick
    \/ ScenHandle

SpecScenario == Init /\ [][ScenNext]_vars

\* ------------------------------------------------------------------ claims
Sent == Len(messages') > Len(messages)

\* C1: PendingState holds at most one state, the one passed to the latest
\* Transition::to that apply_fade has not yet sent; a message apply_fade sends
\* carries that state, so a request replaced before a tick is never sent.
C1_PendingIsLatestRequest ==
    /\ [](pending_state = requested)
    /\ [][Sent => /\ requested # None
                  /\ messages' = Append(messages, requested)]_vars

\* reached: to(B) has replaced a pending A that no tick had sent
C1_Witness ==
    /\ lastOp.op = "to"
    /\ lastOp.was \in States
    /\ lastOp.was # pending_state
    /\ pending_state \in States

\* C2: apply_fade sends a message only in a pass that leaves an overlay at
\* opacity 1 and found a pending state; the message carries that state, the
\* pending state is empty afterwards, one pass sends at most one message, and
\* no pass ends with a pending state and an overlay at opacity 1.
C2_CommitOncePerPhase ==
    /\ [][Sent => /\ lastOp'.op = "apply_fade"
                  /\ pending_state # None
                  /\ messages' = Append(messages, pending_state)
                  /\ pending_state' = None
                  /\ \E o \in OverlayIds : overlays'[o] # Null /\ overlays'[o].alpha = One]_vars
    /\ [](lastOp.op = "apply_fade" /\ pending_state # None
            => \A o \in OverlayIds : overlays[o] # Null => overlays[o].alpha < One)

\* reached: a pass over two overlays at opacity 1 has sent exactly one message
C2_Witness ==
    /\ lastOp.op = "apply_fade"
    /\ lastOp.dt = 0
    /\ lastOp.sent = 1
    /\ Cardinality({o \in OverlayIds : overlays[o] # Null /\ overlays[o].alpha = One}) = 2

\* C3: a pass of apply_fade that sends a message starts with a positive speed s
\* and ends with -s; the magnitude of the speed never differs from the default.
C3_SpeedFlipsKeepsMagnitude ==
    /\ [][Sent => speed > 0 /\ speed' = -speed]_vars
    /\ [](Abs(speed) = DefaultSpeed)

\* reached: a pass has sent a message and the speed is negative
C3_Witness ==
    /\ lastOp.op = "apply_fade"
    /\ lastOp.sent = 1
    /\ speed = -DefaultSpeed

\* C4: Transition::to(state) stores state as the pending state, makes the speed
\* +|speed| and changes nothing else; in the next pass of apply_fade that sends
\* nothing, no overlay loses opacity and one below 1 gains when dt > 0.
C4_RequestEffect ==
    /\ [][lastOp'.op = "to" =>
            /\ pending_state' = requested'
            /\ pending_state' \in States
            /\ speed' = Abs(speed)
            /\ overlays' = overlays
            /\ entities' = entities
            /\ messages' = messages
            /\ next_state' = next_state]_vars
    /\ [][lastOp.op = "to" /\ lastOp'.op = "apply_fade" /\ lastOp'.sent = 0 =>
            \A o \in OverlayIds : overlays[o] # Null =>
                /\ overlays'[o].alpha >= overlays[o].alpha
                /\ (lastOp'.dt > 0 /\ overlays[o].alpha < One)
                      => overlays'[o].alpha > overlays[o].alpha]_vars

\* reached: to was called while the speed was negative and an overlay mid-clear
C4_Witness ==
    /\ lastOp.op = "to"
    /\ lastOp.from < 0
    /\ speed > 0
    /\ \E o \in OverlayIds :
          overlays[o] # Null /\ overlays[o].alpha > 0 /\ overlays[o].alpha < One

\* C5: the opacity of every overlay lies in [0, 1].
C5_OpacityInRange ==
    \A o \in OverlayIds : overlays[o] # Null =>
        overlays[o].alpha >= 0 /\ overlays[o].alpha <= One

\* reached: a pass with dt = 1 s and negative speed has left an overlay at 0
C5_Witness ==
    /\ lastOp.op = "apply_fade"
    /\ lastOp.dt = One
    /\ lastOp.sent = 0
    /\ speed < 0
    /\ \E o \in OverlayIds : overlays[o] # Null /\ overlays[o].alpha = 0

C8_DarkRequestCommitsNextTick ==
    [][(/\ lastOp.op = "to"
        /\ lastOp.was = None
        /\ \E o \in OverlayIds : overlays[o] # Null /\ overlays[o].alpha = One
        /\ lastOp'.op = "apply_fade")
       => /\ messages' = Append(messages, pending_state)
          /\ pending_state' = None
          /\ speed' < 0]_vars

\* reached: such a pass with dt = 0 has sent the message
C8_Witness ==
    /\ lastOp.op = "apply_fade"
    /\ lastOp.dark_request
    /\ lastOp.dt = 0
    /\ lastOp.sent = 1
    /\ speed < 0

\* C9: despawning a surface despawns the overlays it owns and leaves every
\* other overlay as it was; no overlay is owned by an absent surface.
C9_DespawnCascade ==
    /\ [][lastOp'.op = "despawn" =>
            \A o \in OverlayIds :
                overlays'[o] = IF overlays[o] # Null /\ overlays[o].owner = lastOp'.entity
                               THEN Null ELSE overlays[o]]_vars
    /\ [](\A o \in OverlayIds :
            overlays[o] # Null => entities[overlays[o].owner] = "alive")

\* reached: a surface with an overlay was despawned and another surface's
\* overlay is still there
C9_Witness ==
    /\ lastOp.op = "despawn"
    /\ lastOp.had >= 1
    /\ \E o \in OverlayIds : overlays[o] # Null /\ overlays[o].owner # lastOp.entity

\* C10: handle_transition_events reads every message written since its last
\* run, once and in order: it leaves none to read again, NextState holds the
\* state of the last message read, or what it held when there was none; no
\* other step removes a message or writes NextState.
C10_HandlerAppliesLast ==
    /\ [][lastOp'.op = "handle_transition_events" =>
            /\ messages' = <<>>
            /\ next_state' = IF messages = <<>> THEN next_state
                             ELSE messages[Len(messages)]]_vars
    /\ [][lastOp'.op # "handle_transition_events" =>
            /\ next_state' = next_state
            /\ Len(messages') >= Len(messages)
            /\ SubSeq(messages', 1, Len(messages)) = messages]_vars

\* reached: a run has read A and then B, and NextState holds B
C10_Witness ==
    /\ lastOp.op = "handle_transition_events"
    /\ lastOp.read = <<"A", "B">>
    /\ next_state = "B"
    /\ messages = <<>>

\* C18: a surface-removed notification for a surface that has no overlay set
\* is a no-op: overlays, pending request and speed are as before, and no
\* message is written.
C18_DespawnWithoutOverlays ==
    [][(lastOp'.op = "despawn" /\ lastOp'.had = 0)
        => /\ overlays' = overlays
           /\ pending_state' = pending_state
           /\ speed' = speed
           /\ messages' = messages
           /\ next_state' = next_state]_vars

\* a surface without overlays was removed while another surface's overlay
\* and a pending request were there to be disturbed
C18_Witness ==
    /\ lastOp.op = "despawn"
    /\ lastOp.had = 0
    /\ Live # {}
    /\ pending_state # None

\* C16: a pass that runs with no pending state writes no message and leaves
\* the speed and the (empty) pending state as they were; with positive speed
\* and no pending state an overlay at opacity 1 is still at opacity 1 after
\* every step that is not a request, whatever dt is.
C16_IdlePassIsInert ==
    [][(pending_state = None /\ lastOp'.op # "to")
        => /\ pending_state' = None
           /\ speed' = speed
           /\ lastOp'.op = "apply_fade" =>
                 (messages' = messages /\ next_state' = next_state)
           /\ speed > 0 =>
                 \A o \in OverlayIds :
                    (overlays[o] # Null /\ overlays[o].alpha = One /\ overlays'[o] # Null)
                       => overlays'[o].alpha = One]_vars

\* a pass of one second ran with no pending state and positive speed over an
\* overlay at opacity 1
C16_Witness ==
    /\ lastOp.op = "apply_fade"
    /\ lastOp.dt = One
    /\ lastOp.sent = 0
    /\ pending_state = None
    /\ speed > 0
    /\ \E o \in Live : overlays[o].alpha = One

\* C17: while no overlay exists a request writes only the pending state and
\* the speed, and a pass changes nothing at all: no message is written and
\* the request stays pending with positive speed; a message is written only
\* by a pass that leaves an overlay at opacity 1.
C17_NoOverlayNoCommit ==
    [][/\ (Live = {} /\ lastOp'.op = "to")
          => /\ messages' = messages
             /\ next_state' = next_state
             /\ overlays' = overlays
             /\ pending_state' # None
             /\ speed' > 0
       /\ (Live = {} /\ lastOp'.op = "apply_fade")
          => /\ pvars' = pvars
             /\ pending_state # None => speed > 0
       /\ Sent => \E o \in Live : overlays'[o] # Null /\ overlays'[o].alpha = One]_vars

\* a pass has run over no overlay with a request pending
C17_Witness ==
    /\ lastOp.op = "apply_fade"
    /\ Live = {}
    /\ pending_state # None
    /\ speed > 0

\* C19: with one plugin instance and no set_speed call from outside, the
\* speed is not negative whenever a state is pending.
C19_PendingImpliesRising ==
    pending_state # None => speed >= 0

\* a pass has raised an overlay that is not yet opaque while the request is
\* still pending
C19_Witness ==
    /\ lastOp.op = "apply_fade"
    /\ lastOp.dt = DtTenth
    /\ pending_state # None
    /\ \E o \in Live : overlays[o].alpha > 0 /\ overlays[o].alpha < One

C14_Original ==
    [][lastOp'.op = "apply_fade"
        => \A o \in Live :
              overlays'[o].alpha =
                 Clamp(AddF32(overlays[o].alpha, MulF32(speed, lastOp'.dt)), 0, One)]_vars

AllClear == \A o \in Live : overlays[o].alpha = 0

C11_QueryReadsOwnCursor ==
    [][/\ lastOp'.op = "is_transition_pending"
          => /\ lastOp'.had_events = emitted
             /\ lastOp'.again => ~lastOp'.had_events
             /\ pvars' = pvars
       /\ (lastOp'.op = "handle_transition_events" /\ messages # <<>>)
          => /\ next_state' = messages[Len(messages)]
             /\ messages' = <<>>]_vars

\* the handler read a message that is_transition_pending had read before it
C11_Witness ==
    /\ lastOp.op = "handle_transition_events"
    /\ lastOp.read = <<"A">>
    /\ lastOp.observed
    /\ next_state = "A"

\* C12 as stated: with two instances, a request for S1 and a frame in which
\* only S1 sends its pending state change neither the speed that the pass of
\* S2 uses nor the pending state of S2; and so a frame that starts with a
\* state of S2 pending and an overlay at opacity 1 sends the state of S2.
C12_Original ==
    /\ [][((lastOp'.op = "to" /\ lastOp'.instance = "S1")
              \/ (lastOp'.op = "frame" /\ lastOp'.sent = {"S1"}))
            => (speed' = speed /\ other'.pending_state = other.pending_state)]_vars
    /\ [][(lastOp'.op = "frame" /\ other.pending_state # None
              /\ \E o \in Live : overlays[o].alpha = One)
            => other'.pending_state = None]_vars

TypeOK ==
    /\ entities \in [Surfaces -> {"absent", "alive"}]
    /\ \A o \in OverlayIds : overlays[o] = Null \/
          (overlays[o].owner \in Surfaces /\ overlays[o].alpha \in 0..One)
    /\ speed \in {DefaultSpeed, -DefaultSpeed}
    /\ pending_state \in States \cup {None}
    /\ messages \in Seq(States) /\ Len(messages) <= MaxMessages
    /\ next_state \in States \cup {Unchanged}
    /\ reader \in 0..MaxMessages
    /\ emitted \in BOOLEAN
    /\ other.pending_state \in States \cup {None}
    /\ other.messages \in Seq(States) /\ Len(other.messages) <= MaxMessages
    /\ other.next_state \in States \cup {Unchanged}
====
